---- MODULE Spec2Model ----
(***************************************************************************)
(* Model of src/auroraswap.py: the Auroraswap yield collector.             *)
(*                                                                         *)
(* Numbers are exact non-negative rationals <<n, d>> in lowest terms; the  *)
(* Python value None is <<0, 0>>.  Python floats are modelled by their     *)
(* exact values, so rounding is outside the model.  Addresses are small    *)
(* positive integers; 0 is "no address".                                   *)
(***************************************************************************)
EXTENDS Integers, Sequences, FiniteSets, TLC

VARIABLES
    pc,               \* position of the main thread of the script
    exc,              \* the exception that ended the run ("" while none)
    log,              \* the steps of the run, consecutive repeats collapsed
    prices,           \* self.prices[REWARD_TOKEN_ADDRESS]; None = no such key
    masterchef_data,  \* __main__'s masterchef_data (line 366)
    pool_count,       \* get_pools' masterchef_data.pool_count (line 61-62)
    tasks,            \* every awaitable created so far, in creation order
    pools,            \* the PoolInfo objects of the current list `pools`
    tokens,           \* self.tokens: the addresses it has entries for
    tokens_set,       \* TRUE once line 63 has assigned self.tokens
    idx,              \* calculate_supply_aprs: index of the next pool_info
    out               \* calculate_supply_aprs: pools_for_db

vars == <<pc, exc, log, prices, masterchef_data, pool_count, tasks, pools,
          tokens, tokens_set, idx, out>>

----------------------------------------------------------------------------
(* Bounds *)

MaxPools == 2

AllocValues == {0, 1, 2}

----------------------------------------------------------------------------
(* Numbers *)

None == <<0, 0>>

IsNone(x) == x[2] = 0

RECURSIVE Gcd(_, _)
Gcd(a, b) == IF b = 0 THEN a ELSE Gcd(b, a % b)

Rat(n, d) == IF n = 0 THEN <<0, 1>> ELSE <<n \div Gcd(n, d), d \div Gcd(n, d)>>

FromInt(n) == <<n, 1>>

\* x * y and x / y of Python, on numbers that are not None; x / y is used
\* only where y is nonzero (a zero divisor raises ZeroDivisionError).
RatMul(x, y) == Rat(x[1] * y[1], x[2] * y[2])

RatDiv(x, y) == Rat(x[1] * y[2], x[2] * y[1])

IsZero(x) == ~IsNone(x) /\ x[1] = 0

\* Python truthiness of a number-or-None: None and 0 are both false.
Truthy(x) == ~IsNone(x) /\ x[1] # 0

\* int(x) for x >= 0: truncation.
PyInt(x) == FromInt(x[1] \div x[2])

RewardValues == {FromInt(0), <<3, 2>>}

PriceValues == {None, FromInt(0), FromInt(2)}

TvlValues == {FromInt(0), <<3, 2>>}

----------------------------------------------------------------------------
(* Records *)

TokenTypes == {"CURVE", "STABLESWAP", "UNI", "VAULT", "ERC20"}

\* get_token's None result.
NoToken == [address |-> 0, type |-> "None"]

PoolToken(address, type) == [address |-> address, type |-> type]

NoMetrics == [present |-> FALSE, staked_tvl |-> None]

Metrics(tvl) == [present |-> TRUE, staked_tvl |-> tvl]

PoolInfo(address, alloc_points) ==
    [address |-> address, alloc_points |-> alloc_points,
     pool_token |-> NoToken, metrics |-> NoMetrics]

\* MasterChefData, without the fields no method reads back from __main__'s
\* copy (pool_count, reward_token_address).
MasterChefData(rewards_per_week, total_alloc_points) ==
    [rewards_per_week |-> rewards_per_week,
     total_alloc_points |-> total_alloc_points]

NoApy == [applied |-> FALSE, arg |-> None]

\* helpers.calculate_apy: the compounding transform, kept symbolic.
calculate_apy(yearly_apr) == [applied |-> TRUE, arg |-> yearly_apr]

NoFarmUpdate ==
    [asset_address |-> 0, yield_type |-> "", tvl_staked |-> None,
     apr_weekly |-> None, apr_daily |-> None, apr_yearly |-> None,
     apy_yearly |-> NoApy, fee_apr_yearly |-> None,
     reward_token_a_apr_yearly |-> None, reward_token_b_apr_yearly |-> None]

Raise(kind) == [exc |-> kind, fu |-> NoFarmUpdate]

Return(fu) == [exc |-> "", fu |-> fu]

\* FarmUpdate.format_for_db: the record written for the database.
format_for_db(fu) == [db |-> fu]

----------------------------------------------------------------------------
(* APR arithmetic *)

WeeklyAprBad(usd_per_week, staked_tvl) ==
    RatMul(RatDiv(usd_per_week, staked_tvl), FromInt(52))

\* usd_per_week / pool_info.metrics.staked_tvl * 100
WeeklyApr(usd_per_week, staked_tvl) ==
    RatMul(RatDiv(usd_per_week, staked_tvl), FromInt(100))

\* alloc_points / total_alloc_points * rewards_per_week
PoolRewardsPerWeek(pool_info, mc) ==
    RatMul(RatDiv(FromInt(pool_info.alloc_points),
                  FromInt(mc.total_alloc_points)),
           mc.rewards_per_week)

_get_uni_pool_info(pool_info, mc, price) ==
    IF mc.total_alloc_points = 0 THEN Raise("ZeroDivisionError")
    ELSE IF IsNone(price) THEN Raise("KeyError")
    ELSE IF IsZero(pool_info.metrics.staked_tvl)
         THEN Raise("ZeroDivisionError")
    ELSE
      LET usd_per_week == RatMul(PoolRewardsPerWeek(pool_info, mc), price)
          weekly_apr   == WeeklyApr(usd_per_week, pool_info.metrics.staked_tvl)
          daily_apr    == RatDiv(weekly_apr, FromInt(7))
          yearly_apr   == RatMul(weekly_apr, FromInt(52))
      IN Return([asset_address |-> pool_info.pool_token.address,
                 yield_type |-> "LP_STAKE",
                 tvl_staked |-> PyInt(pool_info.metrics.staked_tvl),
                 apr_weekly |-> weekly_apr,
                 apr_daily |-> daily_apr,
                 apr_yearly |-> yearly_apr,
                 apy_yearly |-> calculate_apy(yearly_apr),
                 fee_apr_yearly |-> yearly_apr,
                 reward_token_a_apr_yearly |-> yearly_apr,
                 reward_token_b_apr_yearly |-> FromInt(0)])

_get_single_pool_info(pool_info, mc, price) ==
    IF mc.total_alloc_points = 0 THEN Raise("ZeroDivisionError")
    ELSE IF IsNone(price) THEN Raise("KeyError")
    ELSE IF pool_info.metrics.present /\ IsZero(pool_info.metrics.staked_tvl)
         THEN Raise("ZeroDivisionError")
    ELSE
      LET usd_per_week == RatMul(PoolRewardsPerWeek(pool_info, mc), price)
          weekly_apr   == IF pool_info.metrics.present
                          THEN WeeklyApr(usd_per_week,
                                         pool_info.metrics.staked_tvl)
                          ELSE None
          daily_apr    == IF Truthy(weekly_apr)
                          THEN RatDiv(weekly_apr, FromInt(7)) ELSE None
          yearly_apr   == IF Truthy(weekly_apr)
                          THEN RatMul(weekly_apr, FromInt(52)) ELSE None
      IN Return([asset_address |-> pool_info.pool_token.address,
                 yield_type |-> "SINGLE_STAKE",
                 tvl_staked |-> IF pool_info.metrics.present
                                THEN PyInt(pool_info.metrics.staked_tvl)
                                ELSE None,
                 apr_weekly |-> weekly_apr,
                 apr_daily |-> daily_apr,
                 apr_yearly |-> yearly_apr,
                 apy_yearly |-> IF Truthy(yearly_apr)
                                THEN calculate_apy(yearly_apr) ELSE NoApy,
                 fee_apr_yearly |-> yearly_apr,
                 reward_token_a_apr_yearly |-> yearly_apr,
                 reward_token_b_apr_yearly |-> FromInt(0)])

\* Append a step to the log unless it repeats the last one.
Logged(l, step) == IF Len(l) > 0 /\ l[Len(l)] = step THEN l ELSE Append(l, step)

----------------------------------------------------------------------------
(* calculate_supply_aprs: one iteration of the loop over pools *)

\* The body of the loop for pool_info: the exception it raises ("" if none)
\* and the farm_update it computes (NoFarmUpdate for farm_update = None).
FarmUpdateFor(pool_info, mc, price) ==
    IF pool_info.pool_token.type = "None" THEN Raise("AttributeError")
    ELSE IF pool_info.pool_token.type = "UNI"
    THEN IF pool_info.metrics.present
         THEN _get_uni_pool_info(pool_info, mc, price)
         ELSE Return(NoFarmUpdate)
    ELSE IF pool_info.pool_token.type = "ERC20"
    THEN IF pool_info.metrics.present
         THEN _get_single_pool_info(pool_info, mc, price)
         ELSE Return(NoFarmUpdate)
    ELSE Return(NoFarmUpdate)

CalcPool ==
    /\ pc = "calc"
    /\ idx <= Len(pools)
    /\ LET r == FarmUpdateFor(pools[idx], masterchef_data, prices)
       IN IF r.exc # ""
          THEN /\ pc' = "raised"
               /\ exc' = r.exc
               /\ UNCHANGED <<idx, out, log>>
          ELSE /\ idx' = idx + 1
               /\ IF r.fu # NoFarmUpdate
                  THEN /\ out' = Append(out, format_for_db(r.fu))
                       /\ log' = Logged(Logged(log, "apr"), "format")
                  ELSE UNCHANGED <<out, log>>
               /\ UNCHANGED <<pc, exc>>
    /\ UNCHANGED <<prices, masterchef_data, pool_count, tasks, pools,
                   tokens, tokens_set>>

CalcReturn ==
    /\ pc = "calc"
    /\ idx > Len(pools)
    /\ pc' = "done"
    /\ UNCHANGED <<exc, log, prices, masterchef_data, pool_count, tasks,
                   pools, tokens, tokens_set, idx, out>>

----------------------------------------------------------------------------
(* Awaitables: the calls wrapped by to_async and collected by gather *)

\* What the chain and the price service answer during a whole run.
RunRewardValues == {<<3, 2>>}

RunTotalValues == {2}

RunPriceValues == {FromInt(2)}

RunAllocValues == {1}

RunTvlValues == {FromInt(0), <<3, 2>>}

\* The lp_token of pool n: its own address, or the first pool's again.
RunAddressesAt(n) == {1, n}

\* The two underlying tokens every uniswap pair of the run is made of.
Underlying == <<MaxPools + 1, MaxPools + 2>>

NoLoc == {}

Loc(obj, k, field) == <<obj, k, field>>

NewTask(kind, fan, arg) ==
    [kind |-> kind, fan |-> fan, arg |-> arg, st |-> "pending",
     calls |-> <<>>, info |-> PoolInfo(0, 0), token |-> NoToken,
     val |-> NoMetrics, ret |-> 0, err |-> "",
     reads |-> NoLoc, writes |-> NoLoc]

TasksOf(fan) == {i \in DOMAIN tasks : tasks[i].fan = fan}

Started(i) == tasks[i].st # "pending"

Finished(i) == tasks[i].st = "done"

\* The i-th task of a fan-out, in list order.
RECURSIVE NthOf(_, _, _)
NthOf(fan, n, from) ==
    IF tasks[from].fan = fan
    THEN IF n = 1 THEN from ELSE NthOf(fan, n - 1, from + 1)
    ELSE NthOf(fan, n, from + 1)

Nth(fan, n) == NthOf(fan, n, 1)

\* get_pool_info (lines 160-173): one poolInfo call on the contract.
GetPoolInfoStep(i) ==
    /\ tasks[i].kind = "get_pool_info"
    /\ tasks[i].st = "pending"
    /\ \E lp_token \in RunAddressesAt(tasks[i].arg + 1),
          alloc_points \in RunAllocValues :
           tasks' = [tasks EXCEPT
               ![i].st = "done",
               ![i].info = PoolInfo(lp_token, alloc_points),
               ![i].reads = {Loc("self", 0, "contract")}]
    /\ UNCHANGED <<pc, exc, log, prices, masterchef_data, pool_count, pools,
                   tokens, tokens_set, idx, out>>

----------------------------------------------------------------------------
(* get_token: the probe chain (lines 175-203) *)

ProbeOrderSwapped == <<"CURVE", "UNI", "STABLESWAP", "VAULT", "ERC20">>

\* get_curve_info, get_stableswap_info, get_uni_info,
\* get_harvest_vault_info, get_erc20_info, in the order of the try blocks.
ProbeOrder == <<"CURVE", "STABLESWAP", "UNI", "VAULT", "ERC20">>

ProbeOutcomes == {"ok", "ValueError", "OtherError"}

AbsorbsNothing(kind) == FALSE

\* except ValueError: pass
Absorbed(kind) == kind = "ValueError"

\* What a probe that succeeds returns for the address.
ProbeInfo(address, probe) == PoolToken(address, probe)

\* One try block: the next probe is called and succeeds (return info), fails
\* with an absorbed exception (fall through; after the last block the
\* function ends and returns None) or fails with any other exception, which
\* leaves get_token.
GetTokenStep(i) ==
    /\ tasks[i].kind = "get_token"
    /\ tasks[i].st \in {"pending", "running"}
    /\ LET k == Len(tasks[i].calls) + 1
           probe == ProbeOrder[k]
       IN \E o \in ProbeOutcomes :
           LET call == [probe |-> probe, outcome |-> o,
                        value |-> IF o = "ok"
                                  THEN ProbeInfo(tasks[i].arg, probe)
                                  ELSE NoToken]
               t1 == [tasks[i] EXCEPT !.calls = Append(@, call)]
           IN tasks' = [tasks EXCEPT ![i] =
                  IF o = "ok"
                  THEN [t1 EXCEPT !.st = "done", !.token = call.value]
                  ELSE IF Absorbed(o)
                  THEN IF k = Len(ProbeOrder)
                       THEN [t1 EXCEPT !.st = "done", !.token = NoToken]
                       ELSE [t1 EXCEPT !.st = "running"]
                  ELSE [t1 EXCEPT !.st = "failed", !.err = o]]
    /\ UNCHANGED <<pc, exc, log, prices, masterchef_data, pool_count, pools,
                   tokens, tokens_set, idx, out>>

----------------------------------------------------------------------------
(* get_pool_metrics (lines 96-104) *)

MetricsTargetFirst(k) == 1

\* pool.metrics = metrics: the pool written is the task's own argument.
MetricsTarget(k) == k

GetPoolMetricsStep(i) ==
    /\ tasks[i].kind = "get_pool_metrics"
    /\ tasks[i].st = "pending"
    /\ LET k == tasks[i].arg
           ty == pools[k].pool_token.type
       IN IF ty \in {"ERC20", "UNI"}
          THEN \E m \in {NoMetrics} \cup {Metrics(t) : t \in RunTvlValues} :
                 /\ pools' = [pools EXCEPT ![MetricsTarget(k)].metrics = m]
                 /\ tasks' = [tasks EXCEPT
                        ![i].st = "done", ![i].val = m, ![i].ret = k,
                        ![i].reads = {Loc("pool", k, "pool_token"),
                                      Loc("self", 0, "prices")}
                                     \cup IF ty = "UNI"
                                          THEN {Loc("self", 0, "tokens")}
                                          ELSE {},
                        ![i].writes = {Loc("pool", MetricsTarget(k), "metrics")}]
          ELSE /\ tasks' = [tasks EXCEPT
                        ![i].st = "done", ![i].ret = k,
                        ![i].val = pools[k].metrics,
                        ![i].reads = {Loc("pool", k, "pool_token")}]
               /\ UNCHANGED pools
    /\ UNCHANGED <<pc, exc, log, prices, masterchef_data, pool_count,
                   tokens, tokens_set, idx, out>>

TaskStep == \E i \in DOMAIN tasks :
                GetPoolInfoStep(i) \/ GetTokenStep(i) \/ GetPoolMetricsStep(i)

----------------------------------------------------------------------------
(* The main thread: __init__, __main__, get_pools and the methods it calls *)

\* network.connect, brownie.multicall, Contract.from_abi (lines 51-57).
Connect ==
    /\ pc = "start"
    /\ pc' = "fetch_prices"
    /\ log' = Logged(log, "connect")
    /\ UNCHANGED <<exc, prices, masterchef_data, pool_count, tasks, pools,
                   tokens, tokens_set, idx, out>>

FetchPricesSkipped ==
    /\ pc = "fetch_prices"
    /\ pc' = "main_mc"
    /\ UNCHANGED <<exc, log, prices, masterchef_data, pool_count, tasks,
                   pools, tokens, tokens_set, idx, out>>

\* self.prices = asyncio.run(get_tokens_prices(AURORA_TOKENS)) (line 58).
FetchPrices ==
    /\ pc = "fetch_prices"
    /\ prices' \in RunPriceValues
    /\ pc' = "main_mc"
    /\ log' = Logged(log, "prices")
    /\ UNCHANGED <<exc, masterchef_data, pool_count, tasks, pools, tokens,
                   tokens_set, idx, out>>

\* masterchef_data = auroraswap.get_masterchef_data() (line 366).
MainMasterchefData ==
    /\ pc = "main_mc"
    /\ \E rw \in RunRewardValues, ta \in RunTotalValues :
           masterchef_data' = MasterChefData(rw, ta)
    /\ pc' = "gp_mc"
    /\ log' = Logged(log, "globals")
    /\ UNCHANGED <<exc, prices, pool_count, tasks, pools, tokens, tokens_set,
                   idx, out>>

\* get_pools, line 61: its own get_masterchef_data, read for pool_count.
GetPoolsMasterchefData ==
    /\ pc = "gp_mc"
    /\ pool_count' \in 0..MaxPools
    /\ pc' = "gpi_fan"
    /\ log' = Logged(log, "globals")
    /\ UNCHANGED <<exc, prices, masterchef_data, tasks, pools, tokens,
                   tokens_set, idx, out>>

\* get_pools_info, lines 126-129: one get_pool_info per index.
FanPoolInfo ==
    /\ pc = "gpi_fan"
    /\ tasks' = tasks \o [n \in 1..pool_count |->
                              NewTask("get_pool_info", 1, n - 1)]
    /\ pc' = "gpi_join1"
    /\ log' = Logged(log, "enumerate")
    /\ UNCHANGED <<exc, prices, masterchef_data, pool_count, pools, tokens,
                   tokens_set, idx, out>>

CurrentFan ==
    CASE pc = "gpi_join1" -> 1
      [] pc = "gpi_join2" -> 2
      [] pc = "gt_join" -> 3
      [] pc = "gp_join" -> 4
      [] OTHER -> 0

JoinReadyAny(fan) == \E i \in TasksOf(fan) : Finished(i)

\* loop.run_until_complete(asyncio.gather(*tasks)) returns once every
\* awaitable of the fan-out has a result.
JoinReady(fan) == \A i \in TasksOf(fan) : Finished(i)

\* gather without return_exceptions: the first exception of a task leaves
\* run_until_complete and, uncaught, ends the script.
GatherRaise ==
    /\ CurrentFan # 0
    /\ \E i \in TasksOf(CurrentFan) :
           /\ tasks[i].st = "failed"
           /\ exc' = tasks[i].err
    /\ pc' = "raised"
    /\ UNCHANGED <<log, prices, masterchef_data, pool_count, tasks, pools,
                   tokens, tokens_set, idx, out>>

\* pool_infos.setdefault(pool.address, pool) over the results in order: the
\* first pool of each address, in order of first appearance.
RECURSIVE Dedupe(_, _)
Dedupe(infos, kept) ==
    IF infos = <<>> THEN kept
    ELSE Dedupe(Tail(infos),
                IF \E j \in DOMAIN kept : kept[j].address = Head(infos).address
                THEN kept ELSE Append(kept, Head(infos)))

Count(fan) == Cardinality(TasksOf(fan))

\* get_pools_info, lines 129-136.
JoinPoolInfo ==
    /\ pc = "gpi_join1"
    /\ JoinReady(1)
    /\ LET results == [n \in 1..Count(1) |-> tasks[Nth(1, n)].info]
           pool_infos == Dedupe(results, <<>>)
       IN /\ pools' = pool_infos
          /\ tasks' = tasks \o [j \in 1..Len(pool_infos) |->
                                    NewTask("get_token", 2, pool_infos[j].address)]
    /\ pc' = "gpi_join2"
    /\ log' = Logged(log, "tokens")
    /\ UNCHANGED <<exc, prices, masterchef_data, pool_count, tokens,
                   tokens_set, idx, out>>

\* pool_token.tokens: the underlying pair of a uniswap pair.
PoolTokenTokens(token) == IF token.type = "UNI" THEN Underlying ELSE <<>>

Range(f) == {f[x] : x \in DOMAIN f}

\* list(set(tokens_addresses)): the addresses once each, in any order.
Orders(S) == {q \in [1..Cardinality(S) -> S] : Range(q) = S}

\* get_pools_info, lines 137-141, then get_pools line 63 and get_tokens,
\* lines 107-119.  token_info.address on a None result is an AttributeError.
JoinPoolTokens ==
    /\ pc = "gpi_join2"
    /\ JoinReady(2)
    /\ LET tokens_infos == [n \in 1..Count(2) |-> tasks[Nth(2, n)].token]
       IN IF \E n \in DOMAIN tokens_infos : tokens_infos[n] = NoToken
          THEN /\ pc' = "raised"
               /\ exc' = "AttributeError"
               /\ UNCHANGED <<log, tasks, pools>>
          ELSE LET assigned == [j \in DOMAIN pools |->
                       LET hits == {n \in DOMAIN tokens_infos :
                                      tokens_infos[n].address = pools[j].address}
                       IN IF hits = {} THEN pools[j]
                          ELSE [pools[j] EXCEPT !.pool_token =
                                   tokens_infos[CHOOSE n \in hits :
                                                  \A m \in hits : m <= n]]]
                   tokens_addresses ==
                       UNION {Range(PoolTokenTokens(assigned[j].pool_token)) :
                                j \in {j \in DOMAIN assigned :
                                         assigned[j].pool_token # NoToken}}
               IN /\ pools' = assigned
                  /\ \E order \in Orders(tokens_addresses) :
                         tasks' = tasks \o [n \in DOMAIN order |->
                                      NewTask("get_token", 3, order[n])]
                  /\ pc' = "gt_join"
                  /\ log' = Logged(log, "tokens")
                  /\ UNCHANGED exc
    /\ UNCHANGED <<prices, masterchef_data, pool_count, tokens, tokens_set,
                   idx, out>>

\* get_tokens, lines 119-123, then get_pools lines 63-66: self.tokens is
\* assigned and one get_pool_metrics per pool is created.
JoinTokens ==
    /\ pc = "gt_join"
    /\ JoinReady(3)
    /\ LET tokens_infos == [n \in 1..Count(3) |-> tasks[Nth(3, n)].token]
       IN IF \E n \in DOMAIN tokens_infos : tokens_infos[n] = NoToken
          THEN /\ pc' = "raised"
               /\ exc' = "AttributeError"
               /\ UNCHANGED <<log, tasks, tokens, tokens_set>>
          ELSE /\ tokens' = {tokens_infos[n].address : n \in DOMAIN tokens_infos}
               /\ tokens_set' = TRUE
               /\ tasks' = tasks \o [j \in 1..Len(pools) |->
                                         NewTask("get_pool_metrics", 4, j)]
               /\ pc' = "gp_join"
               /\ log' = Logged(log, "metrics")
               /\ UNCHANGED exc
    /\ UNCHANGED <<prices, masterchef_data, pool_count, pools, idx, out>>

\* get_pools, lines 67-68: the pools the tasks returned, in list order; then
\* __main__ line 369 enters calculate_supply_aprs.
JoinMetrics ==
    /\ pc = "gp_join"
    /\ JoinReady(4)
    /\ pools' = [n \in 1..Count(4) |-> pools[tasks[Nth(4, n)].ret]]
    /\ idx' = 1
    /\ pc' = "calc"
    /\ UNCHANGED <<exc, log, prices, masterchef_data, pool_count, tasks,
                   tokens, tokens_set, out>>

Init ==
    /\ pc = "start"
    /\ exc = ""
    /\ log = <<>>
    /\ prices = None
    /\ masterchef_data = MasterChefData(None, 0)
    /\ pool_count = 0
    /\ tasks = <<>>
    /\ pools = <<>>
    /\ tokens = {}
    /\ tokens_set = FALSE
    /\ idx = 0
    /\ out = <<>>

Next ==
    \/ Connect
    \/ FetchPrices
    \/ MainMasterchefData
    \/ GetPoolsMasterchefData
    \/ FanPoolInfo
    \/ TaskStep
    \/ GatherRaise
    \/ JoinPoolInfo
    \/ JoinPoolTokens
    \/ JoinTokens
    \/ JoinMetrics
    \/ CalcPool
    \/ CalcReturn

Spec == Init /\ [][Next]_vars

----------------------------------------------------------------------------
(* calculate_supply_aprs on every list of classified pools *)

\* A pool as get_pools can return it: metrics only on ERC20 and UNI pools.
PoolsAt(a) ==
    { [address |-> a, alloc_points |-> ap,
       pool_token |-> PoolToken(a, ty), metrics |-> m] :
        ap \in AllocValues, ty \in TokenTypes,
        m \in {NoMetrics} \cup {Metrics(t) : t \in TvlValues} }

ClassifiedPoolsAt(a) ==
    { p \in PoolsAt(a) : p.metrics.present => p.pool_token.type \in {"UNI", "ERC20"} }

InitApr ==
    /\ pc = "calc"
    /\ exc = ""
    /\ log = <<>>
    /\ prices \in PriceValues
    /\ \E rw \in RewardValues, ta \in AllocValues :
           masterchef_data = MasterChefData(rw, ta)
    /\ pool_count = 0
    /\ tasks = <<>>
    /\ \E n \in 0..MaxPools :
           pools \in [1..n -> UNION {ClassifiedPoolsAt(a) : a \in 1..n}]
    /\ \A i \in DOMAIN pools : pools[i].address = i
    /\ tokens = {}
    /\ tokens_set = TRUE
    /\ idx = 1
    /\ out = <<>>

NextApr == CalcPool \/ CalcReturn

SpecApr == InitApr /\ [][NextApr]_vars

----------------------------------------------------------------------------
(* Properties of calculate_supply_aprs *)

Records == {out[i] : i \in DOMAIN out}

\* The input pool a record was made from (pool addresses are distinct).
PoolOf(r) ==
    pools[CHOOSE i \in DOMAIN pools :
              pools[i].pool_token.address = r.db.asset_address]

Scored(p) == p.pool_token.type \in {"UNI", "ERC20"} /\ p.metrics.present

ZeroTvl(p) == Scored(p) /\ IsZero(p.metrics.staked_tvl)

\* C2: every record of the output, LP_STAKE or SINGLE_STAKE, reports the
\* weekly APR  allocPoints / totalAllocPoints * weeklyRewards * rewardPrice
\* / stakedTVL * 100, stated here by cross-multiplication on the inputs.
C2_WeeklyAprFormula ==
    \A r \in Records :
        LET p   == PoolOf(r)
            w   == r.db.apr_weekly
            rw  == masterchef_data.rewards_per_week
            tvl == p.metrics.staked_tvl
        IN /\ ~IsNone(w)
           /\ masterchef_data.total_alloc_points # 0
           /\ ~IsNone(prices)
           /\ tvl[1] # 0
           /\ w[1] * (masterchef_data.total_alloc_points * rw[2] * prices[2] * tvl[1])
                = w[2] * (p.alloc_points * rw[1] * prices[1] * tvl[2] * 100)

\* A finished run that reported a positive weekly APR for a UNI pool and for
\* an ERC20 pool.
C2_Witness ==
    /\ pc = "done"
    /\ \E r \in Records : r.db.yield_type = "LP_STAKE" /\ r.db.apr_weekly[1] > 0
    /\ \E r \in Records : r.db.yield_type = "SINGLE_STAKE" /\ r.db.apr_weekly[1] > 0

\* C3: a pool whose staked TVL is zero does not end the run with an
\* exception; once the loop is past it, its record carries null APRs.
C3_ZeroTvlNullApr ==
    \A i \in DOMAIN pools :
        ZeroTvl(pools[i]) =>
            /\ ~(pc = "raised" /\ idx = i /\ exc = "ZeroDivisionError"
                 /\ masterchef_data.total_alloc_points # 0)
            /\ (pc \in {"calc", "done"} /\ idx > i) =>
                   \E r \in Records :
                       /\ r.db.asset_address = pools[i].pool_token.address
                       /\ IsNone(r.db.apr_weekly)
                       /\ IsNone(r.db.apr_daily)
                       /\ IsNone(r.db.apr_yearly)
                       /\ r.db.apy_yearly = NoApy

\* C6: every record with a non-null weekly APR has yearly = weekly * 52,
\* daily = weekly / 7, APY = calculate_apy(yearly), fee and reward-a yearly
\* APR = yearly, reward-b yearly APR = 0.
C6_YearlyDailyApy ==
    \A r \in Records :
        LET w == r.db.apr_weekly
            y == r.db.apr_yearly
            d == r.db.apr_daily
        IN ~IsNone(w) =>
              /\ ~IsNone(y) /\ y[1] * w[2] = 52 * w[1] * y[2]
              /\ ~IsNone(d) /\ 7 * d[1] * w[2] = w[1] * d[2]
              /\ r.db.apy_yearly = calculate_apy(y)
              /\ r.db.fee_apr_yearly = y
              /\ r.db.reward_token_a_apr_yearly = y
              /\ r.db.reward_token_b_apr_yearly = FromInt(0)

YieldTypeOf(p) == IF p.pool_token.type = "UNI" THEN "LP_STAKE" ELSE "SINGLE_STAKE"

\* C10: with usable globals and a reward price, calculate_supply_aprs ends
\* with exactly one record per scored pool (UNI or ERC20 with metrics), in
\* input order, of the matching yield type, and none for any other pool.
C10_OneRecordPerScoredPool ==
    (/\ pc \in {"done", "raised"}
     /\ masterchef_data.total_alloc_points # 0
     /\ ~IsNone(prices)) =>
        LET want == SelectSeq(pools, Scored)
        IN /\ Len(out) = Len(want)
           /\ Len(out) <= Len(pools)
           /\ \A k \in DOMAIN out :
                 /\ out[k].db.asset_address = want[k].pool_token.address
                 /\ out[k].db.yield_type = YieldTypeOf(want[k])

----------------------------------------------------------------------------
(* Properties of the whole run *)

TokenTasks == {i \in DOMAIN tasks : tasks[i].kind = "get_token"}

AllFailed(i) ==
    /\ Len(tasks[i].calls) = 5
    /\ \A k \in 1..5 : tasks[i].calls[k].outcome = "ValueError"

\* C1: every get_token call tries curve, stableswap, uniswap, vault, ERC20
\* in that order, each probe only after all earlier ones failed, none after
\* a success, none twice, and returns what the first successful probe
\* returned (None when there is none).
C1_ProbeOrderFirstSuccess ==
    \A i \in TokenTasks :
        LET c == tasks[i].calls
        IN /\ Len(c) <= 5
           /\ \A k \in DOMAIN c :
                 /\ c[k].probe = <<"CURVE", "STABLESWAP", "UNI", "VAULT", "ERC20">>[k]
                 /\ k < Len(c) => c[k].outcome # "ok"
                 /\ c[k].outcome = "ok" =>
                        c[k].value = [address |-> tasks[i].arg, type |-> c[k].probe]
           /\ tasks[i].st = "done" =>
                 /\ Len(c) >= 1
                 /\ IF c[Len(c)].outcome = "ok"
                    THEN tasks[i].token = c[Len(c)].value
                    ELSE Len(c) = 5 /\ tasks[i].token = NoToken
           /\ tasks[i].st # "done" => tasks[i].token = NoToken

\* A get_token call that returned the uniswap result after the curve and the
\* stableswap probes had failed.
C1_Witness ==
    \E i \in TokenTasks :
        /\ tasks[i].st = "done"
        /\ Len(tasks[i].calls) = 3
        /\ tasks[i].calls[1].outcome = "ValueError"
        /\ tasks[i].calls[2].outcome = "ValueError"
        /\ tasks[i].token.type = "UNI"

\* C4: a token all five probes fail on does not end the run with an
\* exception; the finished run has no record for it and has the records of
\* the other scored pools.
C4_UnclassifiedTokenExcluded ==
    \A i \in TokenTasks :
        (tasks[i].st = "done" /\ tasks[i].token = NoToken) =>
            /\ ~(pc = "raised" /\ exc = "AttributeError")
            /\ pc = "done" =>
                  /\ \A r \in Records : r.db.asset_address # tasks[i].arg
                  /\ \A n \in DOMAIN pools :
                        Scored(pools[n]) =>
                            \E r \in Records :
                                r.db.asset_address = pools[n].pool_token.address

\* C5 as claimed: no failure of a probe, of whatever kind, leaves get_token;
\* after a failed probe the next one is attempted, and after a failed last
\* probe get_token returns None.
C5_AnyFailureAbsorbed ==
    \A i \in TokenTasks :
        LET c == tasks[i].calls
        IN (Len(c) >= 1 /\ c[Len(c)].outcome # "ok") =>
              /\ tasks[i].st # "failed"
              /\ Len(c) < 5 => tasks[i].st = "running"
              /\ Len(c) = 5 => tasks[i].st = "done" /\ tasks[i].token = NoToken

\* C5 amended: a probe that fails with ValueError is absorbed (the next
\* probe is attempted; after the last one get_token returns None); a probe
\* that fails with any other exception ends get_token with that exception.
C5_ValueErrorAbsorbed ==
    /\ exc # "ValueError"
    /\ \A i \in TokenTasks :
        LET c == tasks[i].calls
        IN /\ (Len(c) >= 1 /\ c[Len(c)].outcome = "ValueError") =>
                 /\ tasks[i].st # "failed"
                 /\ Len(c) < 5 => tasks[i].st = "running"
                 /\ Len(c) = 5 => tasks[i].st = "done" /\ tasks[i].token = NoToken
           /\ (Len(c) >= 1 /\ c[Len(c)].outcome = "OtherError") =>
                 tasks[i].st = "failed" /\ tasks[i].err = "OtherError"
           /\ tasks[i].st = "failed" =>
                 Len(c) >= 1 /\ c[Len(c)].outcome = "OtherError"

\* A get_token call that absorbed five ValueErrors and returned None, and
\* another that was ended by a different exception.
C5_Witness ==
    /\ \E i \in TokenTasks : AllFailed(i) /\ tasks[i].st = "done"
    /\ \E i \in TokenTasks : tasks[i].st = "failed" /\ Len(tasks[i].calls) >= 2

GetPoolsReturned == idx >= 1

\* C7: no get_token starts before every get_pool_info of indices
\* 0..pool_count-1 has completed; no get_pool_metrics starts before every
\* get_token has completed and self.tokens is assigned; get_pools returns
\* only after every get_pool_metrics has completed.
C7_FanOutsJoined ==
    /\ \A i \in TasksOf(2) \cup TasksOf(3) :
          Started(i) =>
              /\ Count(1) = pool_count
              /\ {tasks[j].arg : j \in TasksOf(1)} = 0..(pool_count - 1)
              /\ \A j \in TasksOf(1) : Finished(j)
    /\ \A i \in TasksOf(3) : Started(i) => \A j \in TasksOf(2) : Finished(j)
    /\ \A i \in TasksOf(4) :
          Started(i) =>
              /\ \A j \in TasksOf(2) \cup TasksOf(3) : Finished(j)
              /\ tokens_set
    /\ GetPoolsReturned =>
          /\ Count(4) = Len(pools)
          /\ \A j \in TasksOf(4) : Finished(j)

\* A finished run that went through a fan-out of two tasks at each of the
\* four gathers.
C7_Witness ==
    /\ pc = "done"
    /\ \A f \in 1..4 : Count(f) = 2

Unfinished(i) == tasks[i].st \in {"pending", "running"}

C8_Disjoint ==
    /\ \A i, j \in DOMAIN tasks :
          (i # j /\ tasks[i].fan = tasks[j].fan) =>
              /\ tasks[i].writes \cap tasks[j].writes = {}
              /\ tasks[i].writes \cap tasks[j].reads = {}
    /\ \A i \in TasksOf(4) :
          tasks[i].writes \subseteq {<<"pool", tasks[i].arg, "metrics">>}
    /\ \A i \in TasksOf(1) \cup TasksOf(2) \cup TasksOf(3) : tasks[i].writes = {}
    /\ GetPoolsReturned =>
          \A n \in DOMAIN pools :
              /\ pools[n].address = tasks[Nth(2, n)].arg
              /\ pools[n].metrics = tasks[Nth(4, n)].val

C8_NoWriteWhileRunning ==
    (\E i \in DOMAIN tasks : Unfinished(i)) =>
        /\ tokens' = tokens
        /\ tokens_set' = tokens_set
        /\ prices' = prices

\* C8: the tasks of one fan-out write disjoint fields and read none that
\* another writes, each get_pool_metrics writes only its own pool's metrics,
\* the pools get_pools returns are those of the list, in list order, each with
\* the metrics its own task computed, and self.tokens and self.prices are not
\* written while a task is unfinished.
C8_NoSharedMutableState == []C8_Disjoint /\ [][C8_NoWriteWhileRunning]_vars

\* Two get_pool_metrics tasks that both wrote a metrics field.
C8_Witness ==
    /\ GetPoolsReturned
    /\ \E i, j \in TasksOf(4) :
          i # j /\ tasks[i].writes # {} /\ tasks[j].writes # {}

ClaimedRank(step) ==
    CASE step = "connect" -> 1
      [] step = "globals" -> 2
      [] step = "enumerate" -> 3
      [] step = "tokens" -> 4
      [] step = "prices" -> 5
      [] step = "metrics" -> 6
      [] step = "apr" -> 6
      [] step = "format" -> 7

\* C9 as claimed: the steps of a run follow one another in the order connect,
\* read globals, enumerate pools, resolve tokens, fetch prices, compute
\* per-pool APR, format output.
C9_ClaimedOrder ==
    \A i, j \in DOMAIN log :
        i < j => ClaimedRank(log[i]) <= ClaimedRank(log[j])

ActualRank(step) ==
    CASE step = "connect" -> 1
      [] step = "prices" -> 2
      [] step = "globals" -> 3
      [] step = "enumerate" -> 4
      [] step = "tokens" -> 5
      [] step = "metrics" -> 6
      [] step = "apr" -> 7
      [] step = "format" -> 8

\* C9 amended: the steps follow one another in the order connect, fetch
\* prices, read globals, enumerate pools, resolve tokens, compute pool
\* metrics, and then, pool by pool, compute its APR and format its record.
C9_ActualOrder ==
    /\ Len(log) >= 1 => log[1] = "connect"
    /\ \A i \in 1..(Len(log) - 1) :
          \/ ActualRank(log[i + 1]) = ActualRank(log[i]) + 1
          \/ log[i] = "format" /\ log[i + 1] = "apr"
    /\ pc \notin {"start", "fetch_prices"} => Len(log) >= 2 /\ log[2] = "prices"

\* A finished run that computed and formatted two pools.
C9_Witness ==
    /\ pc = "done"
    /\ Len(out) = 2
    /\ Len(log) = 10

====
